---- MODULE Spec2Model ----
(***************************************************************************)
(* A model of gocd_get_test_failures.py: main(), the concurrent fetcher    *)
(* _get_all_nosetest_xmls() with its get_xml() tasks, _get_pipeline_data(),*)
(* _get_failures() and format_test_failures().                             *)
(*                                                                         *)
(* Strings the code inspects character by character (the build identifier) *)
(* are sequences of one-character strings.  A parsed nosetests.xml is a    *)
(* sequence of testcase elements [name, classname, errors].  The text      *)
(* format_test_failures() joins with "\n" is kept as the sequence of its   *)
(* lines, each line a pair <<prefix, text>>.                               *)
(***************************************************************************)
EXTENDS Integers, Sequences, FiniteSets, Bags, TLC

VARIABLES
    pc,           \* where main() is: "main", "fetching", "returned", "printed", "exited", "raised"
    ARGUMENTS,    \* the docopt result (module global)
    env,          \* os.environ: GOCD_USER, GOCD_PASSWORD
    exit_status,  \* the process exit status; -1 while the process runs
    exception,    \* the exception that ended main(), None when there is none
    stdout,       \* what was printed
    server,       \* the GoCD server: run component of the URL -> response
    context,      \* the request-context mapping of _get_all_nosetest_xmls
    xmls,         \* the result list of _get_all_nosetest_xmls
    seen_404,     \* the nonlocal flag of _get_all_nosetest_xmls
    chunk,        \* number of the run_chunk in progress (1-based), 0 before the loop
    tasks,        \* get_xml task of each run: "new", "get", "read", "done", "failed"
    url_of,       \* run component of the URL the task of each run requested, 0 = none yet
    failures      \* the list handed to format_test_failures

vars == <<pc, ARGUMENTS, env, exit_status, exception, stdout, server, context,
          xmls, seen_404, chunk, tasks, url_of, failures>>

-----------------------------------------------------------------------------
(* Bounds of the model *)

\* chunk_size as modelled; the source sets 30 (line 172), far beyond what the
\* interleavings of a chunk allow to enumerate.
ChunkBound == 2
\* The model follows the (unbounded) chunk loop for this many chunks.
MaxChunks == 2
\* Most runs that exist on a server of the determinism specification.
MaxDocRuns == 3
\* Longest list of failure records format_test_failures is applied to on its own.
MaxFailures == 3
\* Longest build identifier _get_pipeline_data is applied to on its own.
MaxBuildLen == 4

-----------------------------------------------------------------------------
(* Values *)

None == "<None>"

\* Python truthiness of an Optional[str]
Truthy(v) == v \notin {None, ""}

Max(S) == CHOOSE x \in S : \A y \in S : y <= x
Min(S) == CHOOSE x \in S : \A y \in S : x <= y

RECURSIVE SeqToBag(_)
SeqToBag(s) == IF s = <<>> THEN EmptyBag ELSE SetToBag({Head(s)}) (+) SeqToBag(Tail(s))

RECURSIVE Flatten(_)
Flatten(ss) == IF ss = <<>> THEN <<>> ELSE Head(ss) \o Flatten(Tail(ss))

RECURSIVE SeqsUpTo(_, _)
SeqsUpTo(S, n) ==
    IF n = 0 THEN {<<>>}
    ELSE LET shorter == SeqsUpTo(S, n - 1)
         IN  shorter \cup {Append(s, x) : s \in shorter, x \in S}

-----------------------------------------------------------------------------
(* _get_pipeline_data *)

PIPELINES == [p \in {} |-> [stage |-> None, job |-> None]]

IsDigit(ch) == ch \in {"0", "1", "2", "3", "4", "5", "6", "7", "8", "9"}

\* re.match('(.+)-\d+', build): the lengths i of a group 1 = build[1..i] with
\* which the pattern matches at the start of build: one or more characters
\* other than a newline, then '-', then at least one digit.  re.match does
\* not anchor the end of the string.
MatchEnds(build) ==
    {i \in 1..(Len(build) - 2) :
        /\ \A j \in 1..i : build[j] # "\n"
        /\ build[i + 1] = "-"
        /\ IsDigit(build[i + 2])}

\* the greedy match: whether there is one, and its group 1
ReMatch(build) ==
    IF MatchEnds(build) = {} THEN [matched |-> FALSE, group |-> <<>>]
    ELSE [matched |-> TRUE, group |-> SubSeq(build, 1, Max(MatchEnds(build)))]

\* The outcome of _get_pipeline_data(build): the pipeline descriptor, or the
\* exception it raises.
GetPipelineData(build, arguments) ==
    LET match == ReMatch(build) IN
    IF ~match.matched
    THEN [exception |-> "AssertionError", data |-> None]
    ELSE LET pipeline == match.group IN
         IF pipeline \in DOMAIN PIPELINES
         THEN [exception |-> None, data |-> PIPELINES[pipeline]]
         ELSE IF Truthy(arguments.stage) /\ Truthy(arguments.job)
              THEN [exception |-> None,
                    data |-> [stage |-> arguments.stage, job |-> arguments.job]]
              ELSE [exception |-> "ValueError", data |-> None]

-----------------------------------------------------------------------------
(* get_test_failures / _get_failures *)

\* _get_failures(root): one record per <error> of each testcase, in document order
RECURSIVE GetFailures(_)
GetFailures(root) ==
    IF root = <<>> THEN <<>>
    ELSE LET testcase == Head(root) IN
         [i \in 1..Len(testcase.errors) |->
             [test |-> testcase.name,
              test_class |-> testcase.classname,
              traceback |-> testcase.errors[i]]]
         \o GetFailures(Tail(root))

\* get_test_failures: failures.extend(_get_failures(root)) for each xml in turn
RECURSIVE GetTestFailures(_)
GetTestFailures(docs) ==
    IF docs = <<>> THEN <<>>
    ELSE GetFailures(Head(docs)) \o GetTestFailures(Tail(docs))

-----------------------------------------------------------------------------
(* format_test_failures *)

\* The test names of the model, in ascending string order
TestOrder == <<"a", "b">>
Rank(test) == CHOOSE i \in 1..Len(TestOrder) : TestOrder[i] = test
TestLt(s, t) == Rank(s) < Rank(t)

\* str.strip() on the tracebacks of the model
Strip(text) == IF text = "t1\n" THEN "t1" ELSE text

\* insertion after every element whose key is not greater: a stable sort
RECURSIVE InsertByTest(_, _)
InsertByTest(f, s) ==
    IF s = <<>> THEN <<f>>
    ELSE IF TestLt(f.test, Head(s).test) THEN <<f>> \o s
         ELSE <<Head(s)>> \o InsertByTest(f, Tail(s))

RECURSIVE StableSort(_)
StableSort(fs) ==
    IF fs = <<>> THEN <<>>
    ELSE InsertByTest(fs[Len(fs)], StableSort(SubSeq(fs, 1, Len(fs) - 1)))

\* SortByTest with the sort left out
SortByTest_NoSort(fs) == fs

\* sorted(failures, key=itemgetter('test'))
SortByTest(fs) == StableSort(fs)

\* SameGroup when keys are compared by identity: every record opens a group
SameGroup_Never(f, g) == FALSE

\* itertools.groupby keeps a record in the current group while its key equals
\* the key of the record before it
SameGroup(f, g) == f.test_class = g.test_class

\* itertools.groupby(failures, itemgetter('test_class')): the maximal runs of
\* consecutive records with equal test_class
RECURSIVE GroupBy(_)
GroupBy(fs) ==
    IF fs = <<>> THEN <<>>
    ELSE LET n == Max({k \in 1..Len(fs) : \A i \in 2..k : SameGroup(fs[i - 1], fs[i])})
         IN  <<[key |-> Head(fs).test_class, items |-> SubSeq(fs, 1, n)]>>
             \o GroupBy(SubSeq(fs, n + 1, Len(fs)))

\* the markdown code fence (three grave accents, which a TLA+ string cannot hold)
Fence == "<fence>"

MdLines(group) ==
    <<<<"### ", group.key>>>>
    \o Flatten([i \in 1..Len(group.items) |->
          << <<"#### ", group.items[i].test>>,
             <<Fence, Strip(group.items[i].traceback)>> >>])

OrgLines(group) ==
    <<<<"* ", group.key>>>>
    \o Flatten([i \in 1..Len(group.items) |->
          << <<"** ", group.items[i].test>>,
             <<"", group.items[i].traceback>> >>])

FormatMd(sorted) ==
    LET by_test_class == GroupBy(sorted)
    IN  Flatten([g \in 1..Len(by_test_class) |-> MdLines(by_test_class[g])])

FormatOrg(sorted) ==
    LET by_test_class == GroupBy(sorted)
    IN  Flatten([g \in 1..Len(by_test_class) |-> OrgLines(by_test_class[g])])

\* format_test_failures(failures, output_format): the value returned, or the
\* exception raised.  json.dumps and markdown.markdown are kept as constructors.
FormatTestFailures(fs, output_format) ==
    LET sorted == SortByTest(fs) IN
    IF output_format = "json" THEN [exception |-> None, value |-> [json |-> sorted]]
    ELSE IF output_format \in {"md", "markdown"}
         THEN [exception |-> None, value |-> FormatMd(sorted)]
    ELSE IF output_format = "org"
         THEN [exception |-> None, value |-> FormatOrg(sorted)]
    ELSE IF output_format = "html"
         \* the recursive call sorts the sorted list again
         THEN [exception |-> None, value |-> [html |-> FormatMd(SortByTest(sorted))]]
    ELSE [exception |-> "ValueError", value |-> None]

-----------------------------------------------------------------------------
(* The server and the inputs of main() *)

\* chunk_size = 30 in the source, scaled down to ChunkBound
chunk_size == ChunkBound

\* the run indices the model follows
MaxRun == chunk_size * MaxChunks
Runs == 1..MaxRun

\* toolz.partition_all(chunk_size, itertools.count(1)): the c-th chunk
RunChunk(c) == ((c - 1) * chunk_size + 1)..(c * chunk_size)

\* the chunk a run index falls in
ChunkOf(r) == ((r - 1) \div chunk_size) + 1

NotFound == 404
Success == 200
ServerError == 500

\* The documents a run may hold in the determinism specification
DocA == <<[name |-> "a", classname |-> "X", errors |-> <<"t1\n">>]>>
DocB == <<[name |-> "a", classname |-> "Y", errors |-> <<"t2">>]>>
DocC == <<[name |-> "b", classname |-> "X", errors |-> <<"t2">>]>>
Docs == {DocA, DocB, DocC}

\* The document run r holds in the fetch specification: one failing test
\* whose traceback names the run
DocOfRun(r) ==
    <<[name |-> TestOrder[(r % 2) + 1], classname |-> "X", errors |-> <<ToString(r)>>]>>

Response(status, body) == [status |-> status, body |-> body]

\* Every assignment of a status to each run, run r holding DocOfRun(r)
StatusServers ==
    {[r \in Runs |-> Response(st[r], IF st[r] = Success THEN DocOfRun(r) ELSE <<>>)] :
        st \in [Runs -> {Success, NotFound, ServerError}]}

\* Servers whose runs 1..n exist, each with any document of Docs, and whose
\* later runs are not found
DocServers ==
    UNION {{[r \in Runs |-> IF r <= n THEN Response(Success, d[r])
                            ELSE Response(NotFound, <<>>)] :
               d \in [1..n -> Docs]} : n \in 1..Min({MaxDocRuns, MaxRun - 1})}

ValidFormats == {"html", "json", "markdown", "md", "org"}

Builds == {<<"a", "-", "1">>, <<"a", "1">>}

Arguments(formats) ==
    [show_pipelines : BOOLEAN, format : formats, BUILD : Builds,
     stage : {None, "s"}, job : {"j"}]

Environments == [GOCD_USER : {None, "", "u"}, GOCD_PASSWORD : {None, "p"}]

NoContext == [host |-> None, user |-> None, password |-> None, build |-> <<>>,
              stage |-> None, job |-> None, run |-> 0]

\* a server no run of which exists
NoServer == [r \in Runs |-> Response(NotFound, <<>>)]

InitWith(arguments, environments) ==
    /\ pc = "main"
    /\ ARGUMENTS \in arguments
    /\ env \in environments
    /\ exit_status = -1          \* the process is running
    /\ exception = None
    /\ stdout = <<>>
    /\ server = NoServer         \* not consulted before the loop is entered
    /\ context = NoContext
    /\ xmls = <<>>
    /\ seen_404 = FALSE
    /\ chunk = 0
    /\ tasks = [r \in Runs |-> "new"]
    /\ url_of = [r \in Runs |-> 0]
    /\ failures = <<>>

Init == InitWith(Arguments({"org", "xml"}), Environments)

-----------------------------------------------------------------------------
(* main() up to the chunk loop of _get_all_nosetest_xmls *)

fetch_vars == <<server, context, xmls, seen_404, chunk, tasks, url_of, failures>>

\* lines 56-58
ShowPipelines ==
    /\ pc = "main"
    /\ ARGUMENTS.show_pipelines
    /\ stdout' = [json |-> PIPELINES]
    /\ exit_status' = 0
    /\ pc' = "exited"
    /\ UNCHANGED <<ARGUMENTS, env, exception, fetch_vars>>

\* lines 60-61: the raise names the undefined `arguments`, so a NameError is
\* what ends the process
InvalidFormat ==
    /\ pc = "main"
    /\ ~ARGUMENTS.show_pipelines
    /\ ARGUMENTS.format \notin ValidFormats
    /\ exception' = "NameError"
    /\ exit_status' = 1
    /\ pc' = "raised"
    /\ UNCHANGED <<ARGUMENTS, env, stdout, fetch_vars>>

HasCredentials == Truthy(env.GOCD_USER) /\ Truthy(env.GOCD_PASSWORD)

\* lines 63-64 and usage(): docopt, given --help, prints the usage text and
\* calls sys.exit() with no argument, which is exit status 0
Usage ==
    /\ pc = "main"
    /\ ~ARGUMENTS.show_pipelines
    /\ ARGUMENTS.format \in ValidFormats
    /\ ~HasCredentials
    /\ stdout' = <<"__doc__">>
    /\ exception' = "SystemExit"
    /\ exit_status' = 0
    /\ pc' = "exited"
    /\ UNCHANGED <<ARGUMENTS, env, fetch_vars>>

PassesValidation ==
    /\ pc = "main"
    /\ ~ARGUMENTS.show_pipelines
    /\ ARGUMENTS.format \in ValidFormats
    /\ HasCredentials

\* lines 66, 80, 131-138: _get_pipeline_data raises
PipelineError ==
    /\ PassesValidation
    /\ LET data == GetPipelineData(ARGUMENTS.BUILD, ARGUMENTS) IN
        /\ data.exception # None
        /\ exception' = data.exception
    /\ exit_status' = 1
    /\ pc' = "raised"
    /\ UNCHANGED <<ARGUMENTS, env, stdout, fetch_vars>>

\* lines 66, 80, 131-153 and 172-175: the context is built and the loop is
\* entered with the tasks of the first chunk.  The responses the server holds
\* are fixed here, before the first request.
EnterLoop(servers) ==
    /\ PassesValidation
    /\ LET data == GetPipelineData(ARGUMENTS.BUILD, ARGUMENTS) IN
        /\ data.exception = None
        /\ context' = [host |-> "host", user |-> env.GOCD_USER,
                       password |-> env.GOCD_PASSWORD, build |-> ARGUMENTS.BUILD,
                       stage |-> data.data.stage, job |-> data.data.job, run |-> 0]
    /\ server' \in servers
    /\ xmls' = <<>>
    /\ seen_404' = FALSE
    /\ chunk' = 1
    /\ pc' = "fetching"
    /\ UNCHANGED <<ARGUMENTS, env, exit_status, exception, stdout, tasks, url_of, failures>>

-----------------------------------------------------------------------------
(* get_xml(run): the steps between its suspension points *)

\* RebindContext when the new mapping is dropped: the run is not bound
RebindContext_Stale(ctx, run) == ctx

\* context = dict(context, run=run)
RebindContext(ctx, run) == [ctx EXCEPT !.run = run]

\* url.format(**context): the run component of the URL (the other components
\* are the same for every request of the process)
FormatUrl(ctx) == ctx.run

\* every task of the chunk has run up to its first suspension: the tasks
\* asyncio.wait creates are all scheduled before any response is handled
ChunkStarted == \A r \in RunChunk(chunk) : tasks[r] # "new"

\* lines 156-160, up to the suspension in session.get: nothing suspends
\* between the rebinding of context and url.format.  asyncio.wait builds its
\* tasks from set(fs), so the tasks of a chunk start in any order.
StartTask(r) ==
    /\ pc = "fetching"
    /\ r \in RunChunk(chunk)
    /\ tasks[r] = "new"
    /\ context' = RebindContext(context, r)
    /\ url_of' = [url_of EXCEPT ![r] = FormatUrl(context')]
    /\ tasks' = [tasks EXCEPT ![r] = "get"]
    /\ UNCHANGED <<pc, ARGUMENTS, env, exit_status, exception, stdout, server,
                   xmls, seen_404, chunk, failures>>

\* resp.status == 404
IsNotFound(status) == status = NotFound

\* resp.raise_for_status() raises for a status of 400 or more
RaisesForStatus(status) == status >= 400

\* lines 160-169: the response arrives.  An exception (the assert of line 164,
\* raise_for_status) ends the task and is kept in it: asyncio.wait returns
\* the done tasks and raises nothing, and nothing reads their results.
GetResolves(r) ==
    /\ pc = "fetching"
    /\ ChunkStarted
    /\ tasks[r] = "get"
    /\ LET resp == server[url_of[r]] IN
        IF IsNotFound(resp.status)
        THEN IF r > 1
             THEN /\ seen_404' = TRUE
                  /\ tasks' = [tasks EXCEPT ![r] = "done"]
             ELSE /\ tasks' = [tasks EXCEPT ![r] = "failed"]
                  /\ UNCHANGED seen_404
        ELSE /\ UNCHANGED seen_404
             /\ IF RaisesForStatus(resp.status)
                THEN tasks' = [tasks EXCEPT ![r] = "failed"]
                ELSE tasks' = [tasks EXCEPT ![r] = "read"]
    /\ UNCHANGED <<pc, ARGUMENTS, env, exit_status, exception, stdout, server,
                   context, xmls, chunk, url_of, failures>>

\* lines 169-170: the body has been read
ReadResolves(r) ==
    /\ pc = "fetching"
    /\ tasks[r] = "read"
    /\ xmls' = Append(xmls, server[url_of[r]].body)
    /\ tasks' = [tasks EXCEPT ![r] = "done"]
    /\ UNCHANGED <<pc, ARGUMENTS, env, exit_status, exception, stdout, server,
                   context, seen_404, chunk, url_of, failures>>

-----------------------------------------------------------------------------
(* the chunk loop, lines 174-181 *)

\* AllCompleted under return_when=FIRST_COMPLETED: one done task is enough
AllCompleted_First(ts, runs) == \E r \in runs : ts[r] \in {"done", "failed"}

\* asyncio.wait(..., return_when=ALL_COMPLETED) under run_until_complete
AllCompleted(ts, runs) == \A r \in runs : ts[r] \in {"done", "failed"}

\* LoopBreaks when the flag is not consulted: the loop never breaks, or it
\* breaks after its first chunk
LoopBreaks_Never(seen) == FALSE
LoopBreaks_Always(seen) == TRUE

\* if seen_404: break
LoopBreaks(seen) == seen

\* lines 176-181: the chunk is complete and a 404 was seen
LoopBreak ==
    /\ pc = "fetching"
    /\ ChunkStarted
    /\ AllCompleted(tasks, RunChunk(chunk))
    /\ LoopBreaks(seen_404)
    /\ pc' = "returned"
    /\ UNCHANGED <<ARGUMENTS, env, exit_status, exception, stdout, fetch_vars>>

\* lines 174-177: the chunk is complete and no 404 was seen
NextChunk ==
    /\ pc = "fetching"
    /\ ChunkStarted
    /\ AllCompleted(tasks, RunChunk(chunk))
    /\ ~LoopBreaks(seen_404)
    /\ chunk < MaxChunks
    /\ chunk' = chunk + 1
    /\ UNCHANGED <<pc, ARGUMENTS, env, exit_status, exception, stdout, server,
                   context, xmls, seen_404, tasks, url_of, failures>>

\* lines 80-84 and 67: the documents are parsed, the failures formatted and printed
PrintFailures ==
    /\ pc = "returned"
    /\ failures' = GetTestFailures(xmls)
    /\ stdout' = FormatTestFailures(failures', ARGUMENTS.format).value
    /\ exit_status' = 0
    /\ pc' = "printed"
    /\ UNCHANGED <<ARGUMENTS, env, exception, server, context, xmls, seen_404,
                   chunk, tasks, url_of>>

MainSteps(servers) ==
    \/ ShowPipelines
    \/ InvalidFormat
    \/ Usage
    \/ PipelineError
    \/ EnterLoop(servers)

\* the steps of the event loop under run_until_complete, and the loop around it
LoopSteps ==
    \/ \E r \in Runs : StartTask(r)
    \/ \E r \in Runs : GetResolves(r)
    \/ \E r \in Runs : ReadResolves(r)
    \/ LoopBreak
    \/ NextChunk

FetchSteps == LoopSteps \/ PrintFailures

Next == MainSteps(StatusServers) \/ FetchSteps

Spec == Init /\ [][Next]_vars

-----------------------------------------------------------------------------
(* What the claims speak of *)

\* the chunk loop was entered, so the server holds its responses
LoopEntered == chunk > 0

\* _get_all_nosetest_xmls has returned
Returned == pc \in {"returned", "printed"}

Status(r) == server[r].status

\* the number of GETs issued to the URL whose run component is r
Requests(r) == Cardinality({q \in Runs : url_of[q] = r})

RECURSIVE BagOfBodies(_)
BagOfBodies(S) ==
    IF S = {} THEN EmptyBag
    ELSE LET r == Min(S) IN SetToBag({server[r].body}) (+) BagOfBodies(S \ {r})

\* the server answers success for runs 1..n and not-found for run n+1
SuccessThenNotFound(n) ==
    /\ \A r \in 1..n : Status(r) = Success
    /\ Status(n + 1) = NotFound

\* the last run of the chunk that holds run r
LastOfChunk(r) == chunk_size * ChunkOf(r)

\* C1 as stated: with success for runs 1..n and not-found for run n+1, the
\* fetcher returns exactly the documents of runs 1..n and has issued no
\* request for a run index greater than n+1.
C1_Original ==
    \A n \in 1..(MaxRun - 1) :
        (Returned /\ SuccessThenNotFound(n)) =>
            /\ SeqToBag(xmls) = BagOfBodies(1..n)
            /\ \A r \in Runs : r > n + 1 => Requests(r) = 0

\* C1 as amended: with success for runs 1..n and not-found for run n+1, the
\* fetcher returns after the chunk that holds run n+1: it has requested every
\* run of the chunks up to that one exactly once and no run beyond it, and it
\* returns the documents of runs 1..n together with the document of every
\* later run of that chunk that answered success.
C1_ReturnsAfterChunkOfFirstNotFound ==
    \A n \in 1..(MaxRun - 1) :
        (Returned /\ SuccessThenNotFound(n)) =>
            LET last == LastOfChunk(n + 1) IN
            /\ \A r \in Runs : Requests(r) = IF r <= last THEN 1 ELSE 0
            /\ SeqToBag(xmls) = BagOfBodies({r \in 1..last : Status(r) = Success})

\* C1's case: runs 1..n succeeded, run n+1 was not found, and a later run of
\* the same chunk was requested, answered success and is in the result.
C1_Witness ==
    \E n \in 1..(MaxRun - 1) :
        /\ Returned
        /\ SuccessThenNotFound(n)
        /\ \E r \in Runs : r > n + 1 /\ Requests(r) = 1 /\ Status(r) = Success
        /\ Len(xmls) = n + 1

\* C2 as stated: when run 1 answers not-found, the fetcher raises and never
\* returns a document list, so nothing is printed.
C2_Claim == (LoopEntered /\ Status(1) = NotFound) => ~Returned

\* C3 as stated: when a requested run answers a status that is neither
\* success nor not-found, no failure report is printed.
C3_Claim ==
    pc = "printed" =>
        \A r \in Runs : Requests(r) > 0 => Status(r) \in {Success, NotFound}

\* C5 as stated: with GOCD_USER or GOCD_PASSWORD unset or empty (no
\* --show-pipelines, a valid format), main ends with a non-zero exit status
\* and issues no HTTP request.
C5_Claim ==
    (pc # "main" /\ ~ARGUMENTS.show_pipelines /\ ARGUMENTS.format \in ValidFormats
       /\ ~HasCredentials) =>
        /\ exit_status > 0
        /\ \A r \in Runs : Requests(r) = 0

\* C7: when _get_all_nosetest_xmls has returned, no request it issued is
\* still in flight, and the returned list holds exactly once the body of
\* every requested run that answered success.
C7_AllResolvedAndKept ==
    Returned =>
        /\ \A r \in Runs : tasks[r] \in {"new", "done", "failed"}
        /\ \A r \in Runs : tasks[r] = "new" <=> url_of[r] = 0
        /\ SeqToBag(xmls) =
              BagOfBodies({r \in Runs : Requests(r) > 0 /\ Status(r) = Success})

\* C7's case: a run that answered success after a not-found run of the same
\* chunk is in the returned list.
C7_Witness ==
    /\ Returned
    /\ \E r, q \in Runs :
          /\ r < q /\ ChunkOf(r) = ChunkOf(q)
          /\ Requests(r) = 1 /\ Status(r) = NotFound
          /\ Requests(q) = 1 /\ Status(q) = Success
          /\ \E i \in 1..Len(xmls) : xmls[i] = server[q].body

\* C8: the task started for run r requests the URL whose run component is r,
\* whatever the order in which the tasks of the chunk rebind the shared
\* context: every run whose task has started is requested exactly once, and
\* no other run is requested.
C8_EachRunRequestedOnce ==
    \A r \in Runs :
        /\ tasks[r] # "new" => url_of[r] = r
        /\ Requests(r) = IF tasks[r] = "new" THEN 0 ELSE 1

\* C8's case: every task of a chunk has issued its request, and the task that
\* rebound the context last is not the one of the chunk's last run.
C8_Witness ==
    /\ pc = "fetching"
    /\ ChunkStarted
    /\ context.run # Max(RunChunk(chunk))
    /\ \A r \in RunChunk(chunk) : tasks[r] = "get"

\* the first run after run 1 that the server answers not-found
HasNotFoundAfterFirst == \E r \in 2..MaxRun : Status(r) = NotFound
FirstNotFoundAfterFirst == Min({r \in 2..MaxRun : Status(r) = NotFound})

\* C9: when the server answers not-found for some run index greater than 1
\* and every request resolves, the chunk loop ends, in the chunk that holds
\* the first such index; once a not-found has been seen no further chunk is
\* scheduled.
C9_LoopEndsAfterFirstNotFoundChunk ==
    /\ (pc = "fetching" /\ HasNotFoundAfterFirst)
          ~> (pc = "returned" /\ chunk = ChunkOf(FirstNotFoundAfterFirst))
    /\ [][seen_404 => chunk' = chunk]_vars

\* C9's case: the loop has ended after a chunk later than the first, the
\* chunk of the first not-found after run 1.
C9_Witness ==
    /\ pc = "returned"
    /\ chunk > 1
    /\ HasNotFoundAfterFirst
    /\ chunk = ChunkOf(FirstNotFoundAfterFirst)
    /\ Status(1) = Success

\* every ready callback of the event loop runs, every request resolves, and
\* the loop goes on when run_until_complete returns
FairSpec == Spec /\ WF_vars(LoopSteps)

-----------------------------------------------------------------------------
(* Determinism of the printed report: servers whose runs hold any documents *)

InitDet ==
    InitWith([show_pipelines : {FALSE}, format : {"json", "org", "md", "html"},
              BUILD : {<<"a", "-", "1">>}, stage : {"s"}, job : {"j"}],
             [GOCD_USER : {"u"}, GOCD_PASSWORD : {"p"}])

NextDet == EnterLoop(DocServers) \/ FetchSteps

SpecDet == InitDet /\ [][NextDet]_vars

\* the runs whose document the fetcher was sent
FetchedRuns == {r \in Runs : Requests(r) > 0 /\ Status(r) = Success}

RECURSIVE BodiesInRunOrder(_)
BodiesInRunOrder(S) ==
    IF S = {} THEN <<>>
    ELSE LET r == Min(S) IN <<server[r].body>> \o BodiesInRunOrder(S \ {r})

\* what main prints when the fetches complete in the order of their runs
InOrderFailures == GetTestFailures(BodiesInRunOrder(FetchedRuns))
InOrderOutput == FormatTestFailures(InOrderFailures, ARGUMENTS.format).value

TestsOf(doc) == {doc[i].name : i \in {j \in 1..Len(doc) : doc[j].errors # <<>>}}

\* no two failure records of different runs have the same test name
NoTestSharedAcrossRuns ==
    \A r, q \in FetchedRuns :
        r # q => TestsOf(server[r].body) \cap TestsOf(server[q].body) = {}

TestNames(fs) == [i \in 1..Len(fs) |-> fs[i].test]

\* C10 as stated: for a fixed server, the printed string is the same for
\* every order in which the fetches complete (so it is the string printed
\* when they complete in run order), also when records of different runs
\* share a test name.
C10_Original == pc = "printed" => stdout = InOrderOutput

\* C10 as amended: for a fixed server, every completion order gives the same
\* multiset of failure records and the same sequence of test names after the
\* sort, and the printed string is the same whenever no two records of
\* different runs share a test name (records with equal test names keep
\* their completion order).
C10_DeterministicUpToEqualTestNames ==
    pc = "printed" =>
        /\ SeqToBag(failures) = SeqToBag(InOrderFailures)
        /\ TestNames(SortByTest(failures)) = TestNames(SortByTest(InOrderFailures))
        /\ \A i \in 2..Len(failures) :
              ~TestLt(SortByTest(failures)[i].test, SortByTest(failures)[i - 1].test)
        /\ NoTestSharedAcrossRuns => stdout = InOrderOutput

\* C10's case: two runs with different test names were fetched, the later
\* run completed first, and the report was printed.
C10_Witness ==
    /\ pc = "printed"
    /\ Len(xmls) = 2
    /\ NoTestSharedAcrossRuns
    /\ xmls[1] = server[2].body
    /\ xmls[2] = server[1].body
    /\ xmls[1] # xmls[2]

-----------------------------------------------------------------------------
(* format_test_failures on its own *)

FailureRecords == [test : {"a", "b"}, test_class : {"X", "Y"}, traceback : {"t1\n"}]

NoArguments == [show_pipelines |-> FALSE, format |-> "org", BUILD |-> <<>>,
                stage |-> None, job |-> None]

InitFormat ==
    /\ pc = "format_test_failures"
    /\ failures \in SeqsUpTo(FailureRecords, MaxFailures)
    /\ ARGUMENTS \in {[NoArguments EXCEPT !.format = f] :
                         f \in {"json", "org", "md", "markdown", "html", "xml"}}
    /\ env = [GOCD_USER |-> "u", GOCD_PASSWORD |-> "p"]
    /\ exit_status = -1
    /\ exception = None
    /\ stdout = <<>>
    /\ server = NoServer
    /\ context = NoContext
    /\ xmls = <<>>
    /\ seen_404 = FALSE
    /\ chunk = 0
    /\ tasks = [r \in Runs |-> "new"]
    /\ url_of = [r \in Runs |-> 0]

\* format_test_failures(failures, output_format) returns
FormatReturns ==
    /\ pc = "format_test_failures"
    /\ LET result == FormatTestFailures(failures, ARGUMENTS.format) IN
        /\ result.exception = None
        /\ stdout' = result.value
    /\ pc' = "formatted"
    /\ UNCHANGED <<ARGUMENTS, env, exit_status, exception, fetch_vars>>

\* format_test_failures(failures, output_format) raises
FormatRaises ==
    /\ pc = "format_test_failures"
    /\ LET result == FormatTestFailures(failures, ARGUMENTS.format) IN
        /\ result.exception # None
        /\ exception' = result.exception
    /\ pc' = "raised"
    /\ UNCHANGED <<ARGUMENTS, env, exit_status, stdout, fetch_vars>>

NextFormat == FormatReturns \/ FormatRaises

SpecFormat == InitFormat /\ [][NextFormat]_vars

\* the outline ('org') or 'md' text has been produced
Outlined == pc = "formatted" /\ ARGUMENTS.format \in {"org", "md"}

ClassPrefix == IF ARGUMENTS.format = "org" THEN "* " ELSE "### "
TestPrefix == IF ARGUMENTS.format = "org" THEN "** " ELSE "#### "

\* the texts of the lines of the output that carry the given prefix, in order
RECURSIVE Headings(_, _)
Headings(lines, prefix) ==
    IF lines = <<>> THEN <<>>
    ELSE (IF Head(lines)[1] = prefix THEN <<Head(lines)[2]>> ELSE <<>>)
         \o Headings(Tail(lines), prefix)

Count(seq, x) == Cardinality({i \in 1..Len(seq) : seq[i] = x})

\* the list in ascending order of test name, records of equal test name in
\* their order in the list
RECURSIVE ByTestUpTo(_, _)
ByTestUpTo(fs, k) ==
    IF k = 0 THEN <<>>
    ELSE ByTestUpTo(fs, k - 1) \o SelectSeq(fs, LAMBDA f : f.test = TestOrder[k])
ByTest(fs) == ByTestUpTo(fs, Len(TestOrder))

\* the test_class of each maximal run of consecutive records of one class
RECURSIVE RunClasses(_)
RunClasses(fs) ==
    IF fs = <<>> THEN <<>>
    ELSE IF Len(fs) > 1 /\ fs[1].test_class = fs[2].test_class
         THEN RunClasses(Tail(fs))
         ELSE <<fs[1].test_class>> \o RunClasses(Tail(fs))

\* C6 as stated: in 'org' and 'md' mode each distinct test_class of the
\* records appears as exactly one class heading.
C6_Original ==
    Outlined =>
        \A i \in 1..Len(failures) :
            Count(Headings(stdout, ClassPrefix), failures[i].test_class) = 1

\* C6 as amended: in 'org' and 'md' mode there is one class heading per
\* maximal run of consecutive records of one test_class in the list sorted
\* (stably) by test name, in the order of the runs, so every test_class has at
\* least one heading and has several when its records are not contiguous
\* after the sort; the test sub-headings are the test names in sorted order.
C6_OneHeadingPerRunOfClass ==
    Outlined =>
        /\ Headings(stdout, ClassPrefix) = RunClasses(ByTest(failures))
        /\ Headings(stdout, TestPrefix) = TestNames(ByTest(failures))
        /\ \A i \in 1..Len(failures) :
              Count(Headings(stdout, ClassPrefix), failures[i].test_class) >= 1

\* C6's case: a test_class whose records are not contiguous after the sort
\* by test name has two class headings.
C6_Witness ==
    /\ Outlined
    /\ \E i \in 1..Len(failures) :
          Count(Headings(stdout, ClassPrefix), failures[i].test_class) = 2

-----------------------------------------------------------------------------
(* _get_pipeline_data on its own *)

BuildChars == {"a", "-", "1", "\n"}

InitPipeline ==
    /\ pc = "_get_pipeline_data"
    /\ ARGUMENTS \in {[NoArguments EXCEPT !.BUILD = b, !.stage = st, !.job = jb] :
                         b \in SeqsUpTo(BuildChars, MaxBuildLen),
                         st \in {None, "s"}, jb \in {None, "j"}}
    /\ env = [GOCD_USER |-> "u", GOCD_PASSWORD |-> "p"]
    /\ exit_status = -1
    /\ exception = None
    /\ stdout = <<>>
    /\ server = NoServer
    /\ context = [NoContext EXCEPT !.build = ARGUMENTS.BUILD]
    /\ xmls = <<>>
    /\ seen_404 = FALSE
    /\ chunk = 0
    /\ tasks = [r \in Runs |-> "new"]
    /\ url_of = [r \in Runs |-> 0]
    /\ failures = <<>>

\* _get_pipeline_data(build) returns and context.update takes its stage and job
PipelineReturns ==
    /\ pc = "_get_pipeline_data"
    /\ LET data == GetPipelineData(ARGUMENTS.BUILD, ARGUMENTS) IN
        /\ data.exception = None
        /\ context' = [context EXCEPT !.stage = data.data.stage, !.job = data.data.job]
    /\ pc' = "resolved"
    /\ UNCHANGED <<ARGUMENTS, env, exit_status, exception, stdout, server, xmls,
                   seen_404, chunk, tasks, url_of, failures>>

\* _get_pipeline_data(build) raises
PipelineRaises ==
    /\ pc = "_get_pipeline_data"
    /\ LET data == GetPipelineData(ARGUMENTS.BUILD, ARGUMENTS) IN
        /\ data.exception # None
        /\ exception' = data.exception
    /\ pc' = "raised"
    /\ UNCHANGED <<ARGUMENTS, env, exit_status, stdout, fetch_vars>>

NextPipeline == PipelineReturns \/ PipelineRaises

SpecPipeline == InitPipeline /\ [][NextPipeline]_vars

\* build is <name>-<digits>: a non-empty name, '-', and a run of digits that
\* ends the string
IsNameDashDigits(build) ==
    \E i \in 1..(Len(build) - 2) :
        /\ build[i + 1] = "-"
        /\ \A j \in (i + 2)..Len(build) : IsDigit(build[j])

\* C4 as stated: for a build identifier that is not <name>-<digits>,
\* _get_pipeline_data fails and returns no stage/job pair.
C4_Claim == pc = "resolved" => IsNameDashDigits(ARGUMENTS.BUILD)

====
